---- MODULE Spec2Model ----
(***************************************************************************)
(* Selective Repeat sender (A) and receiver (B) of src/sr.c, run over the  *)
(* channel the file's header describes: ordered, lossy, corrupting.        *)
(*                                                                         *)
(* A message (20 bytes) is modelled by one integer, its identity; the byte *)
(* sum ComputeChecksum takes over the payload is that integer.             *)
(***************************************************************************)
EXTENDS Integers, Sequences, FiniteSets, TLC

\* ---------------------------------------------------------------- constants
WINDOWSIZE == 6
\* mutant: the sequence space of Go-Back-N, one more than the window
SeqSpaceOfGoBackN == WINDOWSIZE + 1
SEQSPACE == 12
NOTINUSE == -1
\* byte sum of the twenty '0' characters B_input puts in an ACK (20 * 48)
ZeroPayload == 960
\* value the channel writes over a field it corrupts
Garbage == 999999

\* ------------------------------------------------------------------- bounds
\* messages the application gets accepted in one run (> SEQSPACE: wraparound)
MaxMsgs == 13
\* packets in flight in one direction
MaxChan == 2
\* disturbances in one run: packets lost, packets corrupted, timer expiries
MaxDisturb == 2
\* messages the application submits in the short runs (progress, A_init again)
MaxShortMsgs == 2
\* messages the application submits in a run with unbounded retransmission
MaxFewMsgs == 4

\* ------------------------------------------------------------------ packets
MakePkt(seqnum, acknum, checksum, payload) ==
  [seqnum |-> seqnum, acknum |-> acknum, checksum |-> checksum, payload |-> payload]

\* mutant: the checksum covers the header only
ComputeChecksumHeaderOnly(packet) == packet.seqnum + packet.acknum

ComputeChecksum(packet) == packet.seqnum + packet.acknum + packet.payload

IsCorrupted(packet) == packet.checksum # ComputeChecksum(packet)

\* static storage: zero-initialised
ZeroPkt == MakePkt(0, 0, 0, 0)

\* what the channel may hand over in place of p: p itself, or p with one
\* field overwritten and the checksum left alone
Corruptions(p) ==
  { [p EXCEPT !.payload = Garbage],
    [p EXCEPT !.seqnum = Garbage],
    [p EXCEPT !.acknum = Garbage] }

\* ------------------------------------------------------------------- state
VARIABLES
  A_buffer,       \* [0..WINDOWSIZE-1 -> [packet, acked]]
  windowfirst, windowlast, windowcount,
  A_nextseqnum,
  timer_seq,
  timerActive,    \* the emulator's timer event for A is pending
  B_buffer,       \* [0..WINDOWSIZE-1 -> [packet, received]]
  B_windowfirst,
  B_nextseqnum,
  chanAB,         \* packets in flight A -> B, oldest first
  chanBA,         \* packets in flight B -> A, oldest first
  delayedAB,      \* a packet A -> B the channel is holding back (SpecReorder)
  delayedBA,      \* a packet B -> A the channel is holding back (SpecReorder)
  accepted,       \* messages A_output sent (not rejected), in order
  delivered,      \* payloads B_input gave to tolayer5, in order
  ndisturb,       \* losses, corruptions and timer expiries so far
  ev              \* what the last handler did: its calls to the emulator

senderVars == <<A_buffer, windowfirst, windowlast, windowcount, A_nextseqnum,
                timer_seq, timerActive>>
receiverVars == <<B_buffer, B_windowfirst, B_nextseqnum>>
vars == <<A_buffer, windowfirst, windowlast, windowcount, A_nextseqnum,
          timer_seq, timerActive, B_buffer, B_windowfirst, B_nextseqnum,
          chanAB, chanBA, delayedAB, delayedBA, accepted, delivered, ndisturb, ev>>

Slots == 0 .. (WINDOWSIZE - 1)

\* the channel takes another packet in that direction
RoomAB == Len(chanAB) + Len(delayedAB) < MaxChan
RoomBA == Len(chanBA) + Len(delayedBA) < MaxChan

\* the sender's fields as one value, for the handlers written as functions
SenderState ==
  [A_buffer |-> A_buffer, windowfirst |-> windowfirst, windowlast |-> windowlast,
   windowcount |-> windowcount, A_nextseqnum |-> A_nextseqnum,
   timer_seq |-> timer_seq, timerActive |-> timerActive]

ReceiverState ==
  [B_buffer |-> B_buffer, B_windowfirst |-> B_windowfirst,
   B_nextseqnum |-> B_nextseqnum]

\* a handler's record of its calls: packets to tolayer3, payloads to
\* tolayer5, timer calls (each with whether the timer was running); arg is
\* the handler's argument
Event(op, arg, sent, to5, timer) ==
  [op |-> op, arg |-> arg, sent |-> sent, to5 |-> to5, timer |-> timer]

TimerCall(call, wasActive) == [call |-> call, wasActive |-> wasActive]

\* ------------------------------------------------------------ A_init, B_init
\* the sender's static storage before A_init runs, and no timer event
ZeroSender ==
  [A_buffer |-> [i \in Slots |-> [packet |-> ZeroPkt, acked |-> 0]],
   windowfirst |-> 0, windowlast |-> 0, windowcount |-> 0,
   A_nextseqnum |-> 0, timer_seq |-> 0, timerActive |-> FALSE]

\* mutant: windowcount is not reset
A_initKeepsCount(S) ==
  [S EXCEPT !.A_nextseqnum = 0, !.windowfirst = 0, !.windowlast = -1,
            !.timer_seq = -1,
            !.A_buffer = [i \in Slots |-> [S.A_buffer[i] EXCEPT !.acked = 0]]]

\* A_init assigns the window fields and clears the acked flags; it makes no
\* timer call and leaves the buffered packets in place
A_init(S) ==
  [S EXCEPT !.A_nextseqnum = 0, !.windowfirst = 0, !.windowlast = -1,
            !.windowcount = 0, !.timer_seq = -1,
            !.A_buffer = [i \in Slots |-> [S.A_buffer[i] EXCEPT !.acked = 0]]]

B_init ==
  [B_buffer |-> [i \in Slots |-> [packet |-> ZeroPkt, received |-> 0]],
   B_windowfirst |-> 0, B_nextseqnum |-> 1]

Init ==
  /\ A_buffer = A_init(ZeroSender).A_buffer
  /\ windowfirst = A_init(ZeroSender).windowfirst
  /\ windowlast = A_init(ZeroSender).windowlast
  /\ windowcount = A_init(ZeroSender).windowcount
  /\ A_nextseqnum = A_init(ZeroSender).A_nextseqnum
  /\ timer_seq = A_init(ZeroSender).timer_seq
  /\ timerActive = A_init(ZeroSender).timerActive
  /\ B_buffer = B_init.B_buffer
  /\ B_windowfirst = B_init.B_windowfirst
  /\ B_nextseqnum = B_init.B_nextseqnum
  /\ chanAB = <<>>
  /\ chanBA = <<>>
  /\ delayedAB = <<>>
  /\ delayedBA = <<>>
  /\ accepted = <<>>
  /\ delivered = <<>>
  /\ ndisturb = 0
  /\ ev = Event("init", <<>>, <<>>, <<>>, <<>>)

\* ----------------------------------------------------------------- A_output
\* the handler as a function of the sender's state: the new state and the
\* calls made
\* mutant: the window test off by one
WindowNotFullOffByOne(S) == S.windowcount <= WINDOWSIZE

\* if ( windowcount < WINDOWSIZE)
WindowNotFull(S) == S.windowcount < WINDOWSIZE

\* mutant: the sequence number never wraps
NextSeqNoWrap(n) == n + 1

\* A_nextseqnum = (A_nextseqnum + 1) % SEQSPACE
NextSeq(n) == (n + 1) % SEQSPACE

\* mutant: the timer is started with every packet sent
FirstInWindowAlways(wc) == TRUE

\* if (windowcount == 1)
FirstInWindow(wc) == wc = 1

A_outputFn(S, message) ==
  IF WindowNotFull(S)
  THEN LET body == MakePkt(S.A_nextseqnum, NOTINUSE, 0, message)
           sendpkt == [body EXCEPT !.checksum = ComputeChecksum(body)]
           wl == (S.windowlast + 1) % WINDOWSIZE
           wc == S.windowcount + 1
       IN [S |-> [S EXCEPT
                    !.windowlast = wl,
                    !.A_buffer = [S.A_buffer EXCEPT ![wl] =
                                    [packet |-> sendpkt, acked |-> 0]],
                    !.windowcount = wc,
                    !.timerActive = IF FirstInWindow(wc) THEN TRUE ELSE S.timerActive,
                    !.timer_seq = IF FirstInWindow(wc) THEN sendpkt.seqnum
                                  ELSE S.timer_seq,
                    !.A_nextseqnum = NextSeq(S.A_nextseqnum)],
           sent |-> <<sendpkt>>,
           timer |-> IF FirstInWindow(wc)
                     THEN <<TimerCall("starttimer", S.timerActive)>>
                     ELSE <<>>,
           ok |-> TRUE]
  ELSE [S |-> S, sent |-> <<>>, timer |-> <<>>, ok |-> FALSE]

SetSender(S) ==
  /\ A_buffer' = S.A_buffer
  /\ windowfirst' = S.windowfirst
  /\ windowlast' = S.windowlast
  /\ windowcount' = S.windowcount
  /\ A_nextseqnum' = S.A_nextseqnum
  /\ timer_seq' = S.timer_seq
  /\ timerActive' = S.timerActive

A_output(message) ==
  LET r == A_outputFn(SenderState, message)
  IN /\ Len(accepted) < MaxMsgs
     /\ r.ok => RoomAB
     /\ SetSender(r.S)
     /\ chanAB' = chanAB \o r.sent
     /\ accepted' = IF r.ok THEN Append(accepted, message) ELSE accepted
     /\ ev' = Event("A_output", message, r.sent, <<>>, r.timer)
     /\ UNCHANGED <<receiverVars, chanBA, delivered, ndisturb>>

\* ------------------------------------------------------------------ A_input
WinPos(wf, i) == (wf + i) % WINDOWSIZE

\* for (i = ...; i < windowcount; i++): the first i whose window packet carries
\* seqnum and is not acknowledged, or -1 when the loop runs out
RECURSIVE FindPacket(_, _, _, _, _)
FindPacket(buf, wf, wc, seqnum, i) ==
  IF i >= wc THEN -1
  ELSE IF /\ buf[WinPos(wf, i)].packet.seqnum = seqnum
          /\ buf[WinPos(wf, i)].acked = 0
       THEN i
       ELSE FindPacket(buf, wf, wc, seqnum, i + 1)

\* for (i = ...; i < windowcount; i++): the first i whose window packet is not
\* acknowledged, or -1 when the loop runs out
RECURSIVE FindUnacked(_, _, _, _)
FindUnacked(buf, wf, wc, i) ==
  IF i >= wc THEN -1
  ELSE IF buf[WinPos(wf, i)].acked = 0 THEN i
       ELSE FindUnacked(buf, wf, wc, i + 1)

\* mutant: the ACK is cumulative, marking every packet up to the one it names
MarkAckedCumulative(buf, wf, wc, acknum) ==
  LET i == FindPacket(buf, wf, wc, acknum, 0)
  IN IF i = -1 THEN buf
     ELSE [j \in Slots |->
             IF \E k \in 0 .. i : j = WinPos(wf, k)
             THEN [buf[j] EXCEPT !.acked = 1]
             ELSE buf[j]]

\* first loop: mark the first unacknowledged window packet carrying acknum
MarkAcked(buf, wf, wc, acknum) ==
  LET i == FindPacket(buf, wf, wc, acknum, 0)
  IN IF i = -1 THEN buf
     ELSE [buf EXCEPT ![WinPos(wf, i)].acked = 1]

\* mutant: the scan stops one packet short of the end of the window
NextUnackedStopsShort(buf, wf, wc) ==
  LET i == FindUnacked(buf, wf, wc - 1, 0)
  IN IF i = -1 THEN -1 ELSE WinPos(wf, i)

\* buffer index of the first unacknowledged window packet, or -1
NextUnacked(buf, wf, wc) ==
  LET i == FindUnacked(buf, wf, wc, 0)
  IN IF i = -1 THEN -1 ELSE WinPos(wf, i)

\* mutant's loop body: the loop of Slide
RECURSIVE SlideWhile(_, _, _)
SlideWhile(buf, wf, wc) ==
  IF wc > 0 /\ buf[wf].acked # 0
  THEN SlideWhile(buf, (wf + 1) % WINDOWSIZE, wc - 1)
  ELSE [windowfirst |-> wf, windowcount |-> wc]

\* mutant: do ... while, the window slides once before the test
SlideAtLeastOnce(buf, wf, wc) ==
  IF wc > 0 THEN SlideWhile(buf, (wf + 1) % WINDOWSIZE, wc - 1)
  ELSE [windowfirst |-> wf, windowcount |-> wc]

\* while (windowcount > 0 && A_buffer[windowfirst].acked)
RECURSIVE Slide(_, _, _)
Slide(buf, wf, wc) ==
  IF wc > 0 /\ buf[wf].acked # 0
  THEN Slide(buf, (wf + 1) % WINDOWSIZE, wc - 1)
  ELSE [windowfirst |-> wf, windowcount |-> wc]

A_inputFn(S, packet) ==
  IF ~IsCorrupted(packet)
  THEN LET buf == MarkAcked(S.A_buffer, S.windowfirst, S.windowcount, packet.acknum)
           timed == packet.acknum = S.timer_seq
           nxt == IF timed THEN NextUnacked(buf, S.windowfirst, S.windowcount) ELSE -1
           t1 == IF timed THEN <<TimerCall("stoptimer", S.timerActive)>> ELSE <<>>
           a1 == IF timed THEN FALSE ELSE S.timerActive
           t2 == IF nxt # -1 THEN t1 \o <<TimerCall("starttimer", a1)>> ELSE t1
           a2 == IF nxt # -1 THEN TRUE ELSE a1
           ts == IF nxt # -1 THEN buf[nxt].packet.seqnum ELSE S.timer_seq
           w == Slide(buf, S.windowfirst, S.windowcount)
           t3 == IF w.windowcount = 0
                 THEN t2 \o <<TimerCall("stoptimer", a2)>> ELSE t2
           a3 == IF w.windowcount = 0 THEN FALSE ELSE a2
       IN [S |-> [S EXCEPT !.A_buffer = buf,
                           !.windowfirst = w.windowfirst,
                           !.windowcount = w.windowcount,
                           !.timer_seq = ts,
                           !.timerActive = a3],
           sent |-> <<>>, timer |-> t3]
  ELSE [S |-> S, sent |-> <<>>, timer |-> <<>>]

\* packet arrives at A; rest is what stays in flight towards A
A_input(packet, rest) ==
  LET r == A_inputFn(SenderState, packet)
  IN /\ SetSender(r.S)
     /\ chanBA' = rest
     /\ ev' = Event("A_input", packet, r.sent, <<>>, r.timer)
     /\ UNCHANGED <<receiverVars, chanAB, accepted, delivered>>

\* --------------------------------------------------------- A_timerinterrupt
\* mutant: the timed packet is looked for among the acknowledged ones
TimedPosAcked(buf, wf, wc, tseq) ==
  IF \E i \in 0 .. (wc - 1) : /\ buf[WinPos(wf, i)].packet.seqnum = tseq
                              /\ buf[WinPos(wf, i)].acked # 0
  THEN WinPos(wf, CHOOSE i \in 0 .. (wc - 1) :
                    /\ buf[WinPos(wf, i)].packet.seqnum = tseq
                    /\ buf[WinPos(wf, i)].acked # 0)
  ELSE -1

\* buffer index of the window packet that is timed and unacknowledged, or -1
TimedPos(buf, wf, wc, tseq) ==
  LET i == FindPacket(buf, wf, wc, tseq, 0)
  IN IF i = -1 THEN -1 ELSE WinPos(wf, i)

\* mutant: the whole window is sent again, as Go-Back-N does
ResendWindow(S, pos) ==
  [i \in 1 .. S.windowcount |-> S.A_buffer[WinPos(S.windowfirst, i - 1)].packet]

\* tolayer3(A, A_buffer[pos].packet)
Resend(S, pos) == <<S.A_buffer[pos].packet>>

\* the other timeout policy: the packet at the window base is sent again
\* whatever the timer was bound to
A_timerinterruptAtBase(S) ==
  [S |-> [S EXCEPT !.timerActive = TRUE],
   sent |-> <<S.A_buffer[S.windowfirst].packet>>,
   timer |-> <<TimerCall("starttimer", S.timerActive)>>]

\* S is the state the emulator calls the handler in: the expiry has already
\* cleared the timer
A_timerinterruptFn(S) ==
  LET pos == TimedPos(S.A_buffer, S.windowfirst, S.windowcount, S.timer_seq)
      nxt == NextUnacked(S.A_buffer, S.windowfirst, S.windowcount)
  IN IF pos # -1
     THEN [S |-> [S EXCEPT !.timerActive = TRUE],
           sent |-> Resend(S, pos),
           timer |-> <<TimerCall("starttimer", S.timerActive)>>]
     ELSE IF nxt # -1
     THEN [S |-> [S EXCEPT !.timer_seq = S.A_buffer[nxt].packet.seqnum,
                           !.timerActive = TRUE],
           sent |-> <<>>,
           timer |-> <<TimerCall("starttimer", S.timerActive)>>]
     ELSE [S |-> S, sent |-> <<>>, timer |-> <<>>]

\* the timer expires and the emulator calls the handler
TimerExpires ==
  LET r == A_timerinterruptFn([SenderState EXCEPT !.timerActive = FALSE])
  IN /\ timerActive
     /\ RoomAB
     /\ SetSender(r.S)
     /\ chanAB' = chanAB \o r.sent
     /\ ev' = Event("A_timerinterrupt", <<>>, r.sent, <<>>, r.timer)
     /\ UNCHANGED <<receiverVars, chanBA, accepted, delivered>>

\* an expiry counted as a disturbance of the run
A_timerinterrupt ==
  /\ ndisturb < MaxDisturb
  /\ TimerExpires
  /\ ndisturb' = ndisturb + 1

\* ------------------------------------------------------------------ B_input
\* for (i = 0; i < WINDOWSIZE - 1; i++) B_buffer[i] = B_buffer[i + 1];
\* B_buffer[WINDOWSIZE - 1].received = 0;
ShiftB(buf) ==
  [i \in Slots |-> IF i < WINDOWSIZE - 1 THEN buf[i + 1]
                   ELSE [buf[i] EXCEPT !.received = 0]]

\* mutant: B_windowfirst wraps at the window size
NextExpectedWrongModulus(wf) == (wf + 1) % WINDOWSIZE

\* B_windowfirst = (B_windowfirst + 1) % SEQSPACE
NextExpected(wf) == (wf + 1) % SEQSPACE

\* mutant: one delivery for each arrival (if in place of while)
DeliverRunOnce(buf, wf, out) ==
  IF buf[0].received # 0
  THEN [B_buffer |-> ShiftB(buf), B_windowfirst |-> NextExpected(wf),
        to5 |-> Append(out, buf[0].packet.payload)]
  ELSE [B_buffer |-> buf, B_windowfirst |-> wf, to5 |-> out]

\* while (B_buffer[0].received): deliver, shift, advance B_windowfirst
RECURSIVE DeliverRun(_, _, _)
DeliverRun(buf, wf, out) ==
  IF buf[0].received # 0
  THEN DeliverRun(ShiftB(buf), NextExpected(wf), Append(out, buf[0].packet.payload))
  ELSE [B_buffer |-> buf, B_windowfirst |-> wf, to5 |-> out]

\* mutant: the offset reduced modulo the window size
OffsetWrongModulus(seqnum, wf) == (seqnum - wf + SEQSPACE) % WINDOWSIZE

Offset(seqnum, wf) == (seqnum - wf + SEQSPACE) % SEQSPACE

\* mutant: every in-window packet is put in the first slot
StoreInFirstSlot(buf, offset, packet) ==
  [buf EXCEPT ![0] = [packet |-> packet, received |-> 1]]

\* B_buffer[offset].packet = packet; B_buffer[offset].received = 1;
Store(buf, offset, packet) ==
  [buf EXCEPT ![offset] = [packet |-> packet, received |-> 1]]

\* mutant: the ACK names the packet B expects, not the one that arrived
AckForExpected(R, seqnum) ==
  LET body == MakePkt(R.B_nextseqnum, R.B_windowfirst, 0, ZeroPayload)
  IN [body EXCEPT !.checksum = ComputeChecksum(body)]

\* the ACK B_input builds for a packet carrying seqnum
AckFor(R, seqnum) ==
  LET body == MakePkt(R.B_nextseqnum, seqnum, 0, ZeroPayload)
  IN [body EXCEPT !.checksum = ComputeChecksum(body)]

B_inputFn(R, packet) ==
  IF ~IsCorrupted(packet)
  THEN LET seqnum == packet.seqnum
           offset == Offset(seqnum, R.B_windowfirst)
           d == IF offset < WINDOWSIZE
                THEN DeliverRun(Store(R.B_buffer, offset, packet),
                                R.B_windowfirst, <<>>)
                ELSE [B_buffer |-> R.B_buffer, B_windowfirst |-> R.B_windowfirst,
                      to5 |-> <<>>]
           sendpkt == AckFor(R, seqnum)
       IN [R |-> [B_buffer |-> d.B_buffer, B_windowfirst |-> d.B_windowfirst,
                  B_nextseqnum |-> (R.B_nextseqnum + 1) % 2],
           sent |-> <<sendpkt>>, to5 |-> d.to5]
  ELSE [R |-> R, sent |-> <<>>, to5 |-> <<>>]

\* packet arrives at B; rest is what stays in flight towards B
B_input(packet, rest) ==
  LET r == B_inputFn(ReceiverState, packet)
  IN /\ r.sent # <<>> => RoomBA
     /\ B_buffer' = r.R.B_buffer
     /\ B_windowfirst' = r.R.B_windowfirst
     /\ B_nextseqnum' = r.R.B_nextseqnum
     /\ chanAB' = rest
     /\ chanBA' = chanBA \o r.sent
     /\ delivered' = delivered \o r.to5
     /\ ev' = Event("B_input", packet, r.sent, r.to5, <<>>)
     /\ UNCHANGED <<senderVars, accepted>>

\* ------------------------------------------------------------- the channel
\* the application submits its messages in turn, each a fresh payload
NextMessage == Len(accepted)

Submit == A_output(NextMessage)

ArriveB ==
  /\ chanAB # <<>>
  /\ B_input(Head(chanAB), Tail(chanAB))
  /\ UNCHANGED ndisturb

ArriveBCorrupted ==
  /\ chanAB # <<>>
  /\ ndisturb < MaxDisturb
  /\ \E p \in Corruptions(Head(chanAB)) : B_input(p, Tail(chanAB))
  /\ ndisturb' = ndisturb + 1

ArriveA ==
  /\ chanBA # <<>>
  /\ A_input(Head(chanBA), Tail(chanBA))
  /\ UNCHANGED ndisturb

ArriveACorrupted ==
  /\ chanBA # <<>>
  /\ ndisturb < MaxDisturb
  /\ \E p \in Corruptions(Head(chanBA)) : A_input(p, Tail(chanBA))
  /\ ndisturb' = ndisturb + 1

LoseAB ==
  /\ chanAB # <<>>
  /\ ndisturb < MaxDisturb
  /\ chanAB' = Tail(chanAB)
  /\ ndisturb' = ndisturb + 1
  /\ ev' = Event("lose", <<>>, <<>>, <<>>, <<>>)
  /\ UNCHANGED <<senderVars, receiverVars, chanBA, accepted, delivered>>

LoseBA ==
  /\ chanBA # <<>>
  /\ ndisturb < MaxDisturb
  /\ chanBA' = Tail(chanBA)
  /\ ndisturb' = ndisturb + 1
  /\ ev' = Event("lose", <<>>, <<>>, <<>>, <<>>)
  /\ UNCHANGED <<senderVars, receiverVars, chanAB, accepted, delivered>>

Next ==
  \/ Submit /\ UNCHANGED <<delayedAB, delayedBA>>
  \/ ArriveB /\ UNCHANGED <<delayedAB, delayedBA>>
  \/ ArriveBCorrupted /\ UNCHANGED <<delayedAB, delayedBA>>
  \/ ArriveA /\ UNCHANGED <<delayedAB, delayedBA>>
  \/ ArriveACorrupted /\ UNCHANGED <<delayedAB, delayedBA>>
  \/ A_timerinterrupt /\ UNCHANGED <<delayedAB, delayedBA>>
  \/ LoseAB /\ UNCHANGED <<delayedAB, delayedBA>>
  \/ LoseBA /\ UNCHANGED <<delayedAB, delayedBA>>

Spec == Init /\ [][Next]_vars

\* a channel that may hold a packet back and hand it over after packets sent
\* later, or never (one held packet in each direction)
DelayAB ==
  /\ chanAB # <<>>
  /\ delayedAB = <<>>
  /\ ndisturb < MaxDisturb
  /\ delayedAB' = <<Head(chanAB)>>
  /\ chanAB' = Tail(chanAB)
  /\ ndisturb' = ndisturb + 1
  /\ ev' = Event("delay", <<>>, <<>>, <<>>, <<>>)
  /\ UNCHANGED <<senderVars, receiverVars, chanBA, delayedBA, accepted, delivered>>

DelayBA ==
  /\ chanBA # <<>>
  /\ delayedBA = <<>>
  /\ ndisturb < MaxDisturb
  /\ delayedBA' = <<Head(chanBA)>>
  /\ chanBA' = Tail(chanBA)
  /\ ndisturb' = ndisturb + 1
  /\ ev' = Event("delay", <<>>, <<>>, <<>>, <<>>)
  /\ UNCHANGED <<senderVars, receiverVars, chanAB, delayedAB, accepted, delivered>>

LateArriveB ==
  /\ delayedAB # <<>>
  /\ B_input(Head(delayedAB), chanAB)
  /\ delayedAB' = <<>>
  /\ UNCHANGED <<ndisturb, delayedBA>>

LateArriveA ==
  /\ delayedBA # <<>>
  /\ A_input(Head(delayedBA), chanBA)
  /\ delayedBA' = <<>>
  /\ UNCHANGED <<ndisturb, delayedAB>>

\* submissions up to the first reuse of a sequence number
SubmitFirstCycle ==
  /\ Len(accepted) < SEQSPACE
  /\ Submit
  /\ UNCHANGED <<delayedAB, delayedBA>>

NextReorder ==
  \/ SubmitFirstCycle
  \/ ArriveB /\ UNCHANGED <<delayedAB, delayedBA>>
  \/ ArriveA /\ UNCHANGED <<delayedAB, delayedBA>>
  \/ A_timerinterrupt /\ UNCHANGED <<delayedAB, delayedBA>>
  \/ DelayAB
  \/ DelayBA
  \/ LateArriveB
  \/ LateArriveA

SpecReorder == Init /\ [][NextReorder]_vars

\* ---------------------------------------------------------------- short runs
SubmitShort ==
  /\ Len(accepted) < MaxShortMsgs
  /\ Submit
  /\ UNCHANGED <<delayedAB, delayedBA>>

\* ------------------------------------------- A_init called again in a run
\* The emulator calls A_init once, before any other routine; here it is also
\* called in later states, as a handler like the others.
Reinit ==
  /\ ndisturb < MaxDisturb
  /\ SetSender(A_init(SenderState))
  /\ ndisturb' = ndisturb + 1
  /\ ev' = Event("A_init", <<>>, <<>>, <<>>, <<>>)
  /\ UNCHANGED <<receiverVars, chanAB, chanBA, delayedAB, delayedBA,
                 accepted, delivered>>

NextReinit ==
  \/ SubmitShort
  \/ ArriveB /\ UNCHANGED <<delayedAB, delayedBA>>
  \/ ArriveBCorrupted /\ UNCHANGED <<delayedAB, delayedBA>>
  \/ ArriveA /\ UNCHANGED <<delayedAB, delayedBA>>
  \/ ArriveACorrupted /\ UNCHANGED <<delayedAB, delayedBA>>
  \/ A_timerinterrupt /\ UNCHANGED <<delayedAB, delayedBA>>
  \/ LoseAB /\ UNCHANGED <<delayedAB, delayedBA>>
  \/ LoseBA /\ UNCHANGED <<delayedAB, delayedBA>>
  \/ Reinit

SpecReinit == Init /\ [][NextReinit]_vars

\* ------------------------------------ lossy channel, any number of timeouts
\* The channel loses at most MaxDisturb packets; the timer may expire whenever
\* it is active, so that several gaps can open and close at the receiver.
SubmitFew ==
  /\ Len(accepted) < MaxFewMsgs
  /\ Submit
  /\ UNCHANGED <<delayedAB, delayedBA>>

DeliverToB == ArriveB /\ UNCHANGED <<delayedAB, delayedBA>>

DeliverToA == ArriveA /\ UNCHANGED <<delayedAB, delayedBA>>

TimerFires == TimerExpires /\ UNCHANGED <<ndisturb, delayedAB, delayedBA>>

NextLossy ==
  \/ SubmitFew
  \/ DeliverToB
  \/ DeliverToA
  \/ TimerFires
  \/ LoseAB /\ UNCHANGED <<delayedAB, delayedBA>>
  \/ LoseBA /\ UNCHANGED <<delayedAB, delayedBA>>

SpecLossy == Init /\ [][NextLossy]_vars

\* ----------------------------------------------- fair channel and fair timer
\* The application submits finitely many messages (SubmitShort); the channel loses or
\* corrupts finitely many packets (MaxDisturb) and hands over every other one;
\* an active timer expires unless it is stopped first.
NextLive ==
  \/ SubmitShort
  \/ DeliverToB
  \/ ArriveBCorrupted /\ UNCHANGED <<delayedAB, delayedBA>>
  \/ DeliverToA
  \/ ArriveACorrupted /\ UNCHANGED <<delayedAB, delayedBA>>
  \/ TimerFires
  \/ LoseAB /\ UNCHANGED <<delayedAB, delayedBA>>
  \/ LoseBA /\ UNCHANGED <<delayedAB, delayedBA>>

SpecLive ==
  /\ Init
  /\ [][NextLive]_vars
  /\ WF_vars(DeliverToB)
  /\ WF_vars(DeliverToA)
  /\ WF_vars(TimerFires)

\* ================================================================== claims
\* q is an initial segment of r
IsPrefix(q, r) ==
  /\ Len(q) <= Len(r)
  /\ \A i \in 1 .. Len(q) : q[i] = r[i]

\* payload has been handed to tolayer5
WasDelivered(payload) == \E i \in 1 .. Len(delivered) : delivered[i] = payload

\* the last step was handler op, run on a packet the channel left intact /
\* damaged (ndisturb counts the damage, so the step itself tells)
Intact(op) == ev'.op = op /\ ndisturb' = ndisturb
Damaged(op) == ev'.op = op /\ ndisturb' = ndisturb + 1

\* C1: over the ordered, lossy, corrupting channel, with the timer free to
\* expire whenever it runs, the payloads given to tolayer5 are always an
\* initial segment of the messages A_output accepted.
InOrderDelivery == IsPrefix(delivered, accepted)

\* C1 witness: a payload of the second cycle of sequence numbers has been
\* delivered in a run with a disturbance.
InOrderDeliveryWitness ==
  /\ Len(delivered) > SEQSPACE
  /\ ndisturb > 0
  /\ ev.op = "B_input"
  /\ ev.to5 # <<>>

\* C2: no payload is given to tolayer5 twice, and an intact packet whose
\* sequence number is outside the receive window or already buffered in it
\* delivers nothing and leaves B_windowfirst alone.
AtMostOnceDelivery ==
  /\ [](\A i, j \in 1 .. Len(delivered) : delivered[i] = delivered[j] => i = j)
  /\ [][Intact("B_input") =>
         LET off == (ev'.arg.seqnum - B_windowfirst) % SEQSPACE
         IN (off >= WINDOWSIZE \/ B_buffer[off].received # 0)
            => /\ delivered' = delivered
               /\ B_windowfirst' = B_windowfirst]_vars

\* C2 witness: a retransmitted copy of a delivered packet has arrived intact
\* and was acknowledged without a delivery.
AtMostOnceDeliveryWitness ==
  /\ ev.op = "B_input"
  /\ ev.sent # <<>>
  /\ ev.to5 = <<>>
  /\ WasDelivered(ev.arg.payload)

\* C3 as stated: in-order delivery also holds when the channel hands packets
\* over out of order.
InOrderDeliveryReordered ==
  \A i \in 1 .. Len(delivered) : i <= Len(accepted) /\ delivered[i] = accepted[i]

\* C3 amended: when the channel hands packets over out of order, delivery is
\* in order as long as fewer than SEQSPACE messages have been accepted (no
\* sequence number has been used twice).
InOrderDeliveryBeforeReuse ==
  Len(accepted) < SEQSPACE => IsPrefix(delivered, accepted)

\* C3 witness: with nothing lost, corrupted or timed out except one packet
\* held back, B_input released a run of two or more payloads.
InOrderDeliveryBeforeReuseWitness ==
  /\ Len(accepted) < SEQSPACE
  /\ ev.op = "B_input"
  /\ Len(ev.to5) >= 2
  /\ ndisturb = 1

\* C4: windowcount stays within 0 .. WINDOWSIZE and the window holds
\* windowcount packets with consecutive sequence numbers modulo SEQSPACE that
\* end just before A_nextseqnum; so at most WINDOWSIZE packets are unacknowledged.
WindowBound ==
  /\ windowcount \in 0 .. WINDOWSIZE
  /\ \A i \in 0 .. (windowcount - 1) :
        A_buffer[(windowfirst + i) % WINDOWSIZE].packet.seqnum
          = (A_nextseqnum - windowcount + i) % SEQSPACE
  /\ Cardinality({i \in 0 .. (windowcount - 1) :
        A_buffer[(windowfirst + i) % WINDOWSIZE].acked = 0}) <= WINDOWSIZE

\* C4 witness: a full window whose sequence numbers run across the wrap.
WindowBoundWitness ==
  /\ windowcount = WINDOWSIZE
  /\ A_nextseqnum < A_buffer[windowfirst].packet.seqnum

\* C5: the packet next to arrive at B, if B_input finds it within the receive
\* window, carries a payload not yet delivered, and if outside, one already
\* delivered - also once sequence numbers are in their second cycle.
WraparoundCorrect ==
  chanAB # <<>> =>
    LET p == Head(chanAB)
        off == (p.seqnum - B_windowfirst) % SEQSPACE
    IN (off < WINDOWSIZE) <=> ~WasDelivered(p.payload)

\* C5 witness: a packet of the second cycle arrived at B after a
\* retransmission, was found in the window and was delivered.
WraparoundCorrectWitness ==
  /\ ev.op = "B_input"
  /\ ev.arg.payload >= SEQSPACE
  /\ ev.arg.seqnum < WINDOWSIZE
  /\ ev.to5 # <<>>
  /\ ndisturb > 0

\* C6: after every handler the timer runs exactly when the sender window is
\* not empty.
TimerIffWindowNonEmpty == timerActive <=> windowcount > 0

\* C6 witness: the last outstanding packet has just been acknowledged: empty
\* window, timer stopped.
TimerIffWindowNonEmptyWitness ==
  /\ ev.op = "A_input"
  /\ ev.timer # <<>>
  /\ windowcount = 0
  /\ ~timerActive
  /\ accepted # <<>>

\* the intact ACK packets B_input can build next, one for each acknum
AckPackets ==
  { AckFor(ReceiverState, k) : k \in NOTINUSE .. (SEQSPACE - 1) }

\* C7: in every reachable sender state, giving the same intact ACK to A_input
\* a second time changes nothing: the state after the second call is the state
\* after the first. (The sender's state changes only in its own handlers, so
\* the states right after them are all the sender states there are.)
IdempotentAck ==
  ev.op \in {"init", "A_output", "A_input", "A_timerinterrupt"} =>
    \A a \in AckPackets :
      LET once == A_inputFn(SenderState, a).S
          twice == A_inputFn(once, a).S
      IN twice = once

\* C7 witness: A_input has just handled an intact ACK and the next packet in
\* flight acknowledges the same sequence number.
IdempotentAckWitness ==
  /\ ev.op = "A_input"
  /\ ~IsCorrupted(ev.arg)
  /\ chanBA # <<>>
  /\ Head(chanBA).acknum = ev.arg.acknum

\* C8: A_output accepts the message exactly when windowcount < WINDOWSIZE;
\* with a full window it sends nothing, touches no timer and leaves the
\* sender's state as it was.
WindowFullRejection ==
  [][ev'.op = "A_output" =>
       IF windowcount < WINDOWSIZE
       THEN /\ Len(ev'.sent) = 1
            /\ accepted' = Append(accepted, ev'.arg)
            /\ windowcount' = windowcount + 1
       ELSE /\ ev'.sent = <<>>
            /\ ev'.timer = <<>>
            /\ UNCHANGED <<senderVars, chanAB, accepted>>]_vars

\* C8 witness: a message was rejected.
WindowFullRejectionWitness ==
  /\ ev.op = "A_output"
  /\ ev.sent = <<>>
  /\ windowcount = WINDOWSIZE

\* C9: for every intact packet B_input sends exactly one ACK, whose acknum is
\* the packet's seqnum; if the packet is outside the receive window the
\* receive window and buffer stay as they were and nothing is delivered.
AckEveryIntactPacket ==
  [][Intact("B_input") =>
       /\ Len(ev'.sent) = 1
       /\ ev'.sent[1].acknum = ev'.arg.seqnum
       /\ chanBA' = Append(chanBA, ev'.sent[1])
       /\ ((ev'.arg.seqnum - B_windowfirst) % SEQSPACE >= WINDOWSIZE
             => /\ UNCHANGED <<B_windowfirst, B_buffer, delivered>>
                /\ ev'.to5 = <<>>)]_vars

\* C9 witness: an intact packet outside the receive window was acknowledged.
AckEveryIntactPacketWitness ==
  /\ ev.op = "B_input"
  /\ Len(ev.sent) = 1
  /\ ev.to5 = <<>>
  /\ (ev.arg.seqnum - B_windowfirst) % SEQSPACE >= WINDOWSIZE

\* C10: a damaged packet changes nothing: B_input sends no ACK, buffers and
\* delivers nothing and leaves B_windowfirst, B_buffer, B_nextseqnum alone;
\* A_input leaves the sender's state and timer alone and sends nothing.
CorruptionIsLoss ==
  [][/\ Damaged("B_input") =>
          /\ ev'.sent = <<>>
          /\ ev'.to5 = <<>>
          /\ UNCHANGED <<receiverVars, delivered, chanBA>>
     /\ Damaged("A_input") =>
          /\ ev'.sent = <<>>
          /\ ev'.timer = <<>>
          /\ UNCHANGED <<senderVars, chanAB>>]_vars

\* C10 witness: a damaged ACK reached A_input while packets were outstanding.
CorruptionIsLossWitness ==
  /\ ev.op = "A_input"
  /\ ev.arg.checksum # ev.arg.seqnum + ev.arg.acknum + ev.arg.payload
  /\ windowcount > 1
  /\ timerActive

\* C11: with a fair channel and a fair timer every message accepted by A_output
\* is eventually delivered to the application at B, and once the application
\* has stopped submitting the sender reaches an empty window with the timer
\* stopped and stays there.
EventualDelivery ==
  /\ \A n \in 1 .. MaxShortMsgs :
       (Len(accepted) >= n) ~> (Len(delivered) >= n /\ delivered[n] = accepted[n])
  /\ <>[](windowcount = 0 /\ ~timerActive)

EventualDeliveryWitness ==
  /\ Len(delivered) = MaxShortMsgs
  /\ delivered = accepted
  /\ ndisturb = MaxDisturb
  /\ ev.op = "A_input"
  /\ windowcount = 0
  /\ ~timerActive

InWindow == { WinPos(windowfirst, k) : k \in 0 .. (windowcount - 1) }

\* the packet A_output sent when it accepted message m
OriginalPacket(m) ==
  LET seq == (m % SEQSPACE)
  IN MakePkt(seq, NOTINUSE, seq + NOTINUSE + m, m)

\* C13: a timeout sends at most one packet; when the packet numbered
\* timer_seq is in the window and unacknowledged, exactly that packet is sent
\* again as it was first sent, the timer is restarted, and windowfirst,
\* windowcount, the acked flags, A_nextseqnum and timer_seq do not change.
SelectiveRetransmission ==
  [][ev'.op = "A_timerinterrupt" =>
       LET timed == { i \in InWindow : /\ A_buffer[i].packet.seqnum = timer_seq
                                       /\ A_buffer[i].acked = 0 }
       IN /\ Len(ev'.sent) <= 1
          /\ timed # {} =>
               /\ \E i \in timed :
                    /\ ev'.sent = <<A_buffer[i].packet>>
                    /\ A_buffer[i].packet.payload + 1 \in 1 .. Len(accepted)
                    /\ A_buffer[i].packet = OriginalPacket(A_buffer[i].packet.payload)
               /\ ev'.timer = <<TimerCall("starttimer", FALSE)>>
               /\ timerActive'
               /\ UNCHANGED <<A_buffer, windowfirst, windowcount, A_nextseqnum,
                              timer_seq>>]_vars

\* C13 witness: a timeout has resent one packet of a window that holds
\* several unacknowledged packets.
SelectiveRetransmissionWitness ==
  /\ ev.op = "A_timerinterrupt"
  /\ Len(ev.sent) = 1
  /\ ev.sent[1].seqnum = timer_seq
  /\ Cardinality({ i \in InWindow : A_buffer[i].acked = 0 }) >= 2

\* positions of the starttimer calls of the last handler
Starts == { i \in 1 .. Len(ev.timer) : ev.timer[i].call = "starttimer" }

\* C14: the sender never calls starttimer while its timer is active: a handler
\* starts the timer at most once, A_output only for the first packet of an
\* empty window, A_input only right after its stoptimer, A_timerinterrupt
\* only after the expiry.
AtMostOneTimer ==
  /\ Cardinality(Starts) <= 1
  /\ \A i \in Starts :
       /\ ~ev.timer[i].wasActive
       /\ ev.op = "A_output" => windowcount = 1
       /\ ev.op = "A_input" => i > 1 /\ ev.timer[i - 1].call = "stoptimer"
       /\ ev.op \in {"A_output", "A_input", "A_timerinterrupt"}

\* C14 witness: A_input has stopped the timer of the acknowledged packet and
\* started it again for the next unacknowledged one.
AtMostOneTimerWitness ==
  /\ ev.op = "A_input"
  /\ Starts # {}
  /\ windowcount >= 2

\* number of consecutive received slots of buf from slot j on
RECURSIVE RunLength(_, _)
RunLength(buf, j) ==
  IF j < WINDOWSIZE /\ buf[j].received # 0 THEN 1 + RunLength(buf, j + 1) ELSE 0

\* C15: an intact in-window packet that is not the one expected is buffered
\* at its offset and acknowledged, with no delivery; the arrival of the
\* expected packet delivers it and the buffered packets that follow it without
\* a gap, in sequence order, advances B_windowfirst by their number modulo
\* SEQSPACE and moves the other buffered packets down by the same number; the
\* slot of B_windowfirst is never left marked received.
BufferAndRelease ==
  /\ [](B_buffer[0].received = 0)
  /\ [][Intact("B_input") =>
         LET p == ev'.arg
             off == (p.seqnum - B_windowfirst + SEQSPACE) % SEQSPACE
             n == 1 + RunLength(B_buffer, 1)
             run == [k \in 1 .. n |-> IF k = 1 THEN p ELSE B_buffer[k - 1].packet]
         IN /\ off \in 1 .. (WINDOWSIZE - 1) =>
                 /\ ev'.to5 = <<>>
                 /\ delivered' = delivered
                 /\ B_windowfirst' = B_windowfirst
                 /\ B_buffer' = [B_buffer EXCEPT ![off] = [packet |-> p, received |-> 1]]
                 /\ Len(ev'.sent) = 1
                 /\ ev'.sent[1].acknum = p.seqnum
            /\ off = 0 =>
                 /\ ev'.to5 = [k \in 1 .. n |-> run[k].payload]
                 /\ \A k \in 1 .. n :
                      run[k].seqnum = (B_windowfirst + k - 1) % SEQSPACE
                 /\ delivered' = delivered \o ev'.to5
                 /\ B_windowfirst' = (B_windowfirst + n) % SEQSPACE
                 /\ \A j \in Slots :
                      IF j + n < WINDOWSIZE /\ B_buffer[j + n].received # 0
                      THEN B_buffer'[j] = B_buffer[j + n]
                      ELSE B_buffer'[j].received = 0]_vars

\* C15 witness: the expected packet has arrived, a run of several packets was
\* delivered, and a packet buffered beyond the next gap stays buffered.
BufferAndReleaseWitness ==
  /\ ev.op = "B_input"
  /\ Len(ev.to5) >= 2
  /\ \E j \in Slots : /\ B_buffer[j].received # 0
                      /\ B_buffer[j].packet.seqnum = (B_windowfirst + j) % SEQSPACE

\* C16: whenever the window is not empty the packet at its base is
\* unacknowledged and timer_seq is its sequence number.
TimerBinding ==
  windowcount > 0 =>
    /\ A_buffer[windowfirst].acked = 0
    /\ timer_seq = A_buffer[windowfirst].packet.seqnum

\* C16 witness: an ACK of the base packet has slid the window past a packet
\* acknowledged earlier, and the timer was bound again to the new base.
TimerBindingWitness ==
  /\ ev.op = "A_input"
  /\ Starts # {}
  /\ windowcount > 0
  /\ timer_seq = (ev.arg.acknum + 2) % SEQSPACE
  /\ timer_seq = A_buffer[windowfirst].packet.seqnum

\* C17: an intact ACK marks at most the one window packet it names and no
\* other; when it does not name the base packet, windowfirst and windowcount
\* do not change, and a full window stays full.
PerPacketAck ==
  [][Intact("A_input") =>
       LET k == ev'.arg.acknum
           named == { i \in InWindow : A_buffer[i].packet.seqnum = k }
       IN /\ \A i \in Slots :
               A_buffer'[i] # A_buffer[i] =>
                 /\ i \in named
                 /\ A_buffer'[i] = [A_buffer[i] EXCEPT !.acked = 1]
          /\ Cardinality({ i \in Slots : A_buffer'[i] # A_buffer[i] }) <= 1
          /\ (windowcount = 0 \/ k # A_buffer[windowfirst].packet.seqnum) =>
               /\ UNCHANGED <<windowfirst, windowcount>>
               /\ windowcount = WINDOWSIZE => ~WindowNotFull(SenderState')]_vars

\* C17 witness: an ACK for a packet other than the base has arrived at a full
\* window, which stays full with that packet marked.
PerPacketAckWitness ==
  /\ ev.op = "A_input"
  /\ windowcount = WINDOWSIZE
  /\ ev.arg.acknum # A_buffer[windowfirst].packet.seqnum
  /\ \E i \in InWindow : /\ A_buffer[i].packet.seqnum = ev.arg.acknum
                         /\ A_buffer[i].acked = 1

\* C18: whenever the timer can expire, the packet numbered timer_seq is in the
\* window, unacknowledged and at the window base, so that A_timerinterrupt
\* does not take its fallback branch and does what resending the base packet
\* does: the same packet sent, the same timer call, the same state.
TimeoutPoliciesCoincide ==
  timerActive =>
    LET S == [SenderState EXCEPT !.timerActive = FALSE]
    IN /\ windowcount > 0
       /\ A_buffer[windowfirst].packet.seqnum = timer_seq
       /\ A_buffer[windowfirst].acked = 0
       /\ A_timerinterruptFn(S).sent # <<>>
       /\ A_timerinterruptFn(S) = A_timerinterruptAtBase(S)

\* C18 witness: a timeout has resent the base packet while a later packet of
\* the window was already acknowledged.
TimeoutPoliciesCoincideWitness ==
  /\ ev.op = "A_timerinterrupt"
  /\ ev.sent = <<A_buffer[windowfirst].packet>>
  /\ \E i \in InWindow : A_buffer[i].acked = 1

\* C19: the sender never calls stoptimer while its timer is not active; each
\* stoptimer call of A_input finds the timer running.
StopFindsTimerRunning ==
  \A i \in 1 .. Len(ev.timer) :
    ev.timer[i].call = "stoptimer" => ev.timer[i].wasActive

\* packets the sender has retired from its window
Retired == Len(accepted) - windowcount

\* C20: retired <= delivered <= accepted, and the receiver is at most
\* WINDOWSIZE deliveries ahead of the packets the sender has retired.
WindowAlignment ==
  /\ Retired <= Len(delivered)
  /\ Len(delivered) <= Len(accepted)
  /\ Len(delivered) - Retired <= WINDOWSIZE

\* C20 witness: the receiver has delivered a whole window of which the sender
\* has retired nothing, after the sender had retired earlier packets.
WindowAlignmentWitness ==
  /\ Retired > 0
  /\ Len(delivered) - Retired = WINDOWSIZE

====
